---- MODULE Spec2Model ----
(***************************************************************************)
(* A model of the DfuSe container extractor: dfuse_extract.py (the         *)
(* current program, with DFU suffix validation, --ignore-crc and           *)
(* --extract-single) and dfuse-extract.py (the earlier program, with the   *)
(* header-only read mode).  The input file is a sequence of bytes in the   *)
(* layout the program unpacks; every reader works on those bytes through   *)
(* a file position, as the code does.                                      *)
(*                                                                         *)
(* Unsigned 32-bit fields are decoded to integers; all inputs keep them    *)
(* below 2^31.  The CRC alone is kept in its little-endian 4-byte form     *)
(* (its values cover the whole 32-bit range); two CRCs are equal exactly   *)
(* when their byte forms are.                                              *)
(***************************************************************************)
EXTENDS Integers, Sequences, FiniteSets, TLC

\* ------------------------------------------------------------------ bounds
MaxImages == 2
MaxElems == 2
MaxSize == 2

\* ------------------------------------------------------- program constants
DFU_SUFFIX_LEN == 16
DFU_SUFFIX_CRC_LEN == 4
DFU_PREFIX_LEN == 11
DFU_PREFIX_VERSION == 1
TARGET_PREFIX_LEN == 274
TARGET_NAME_LEN == 255
IMAGE_ELEMENT_HEADER_LEN == 8

\* bytes('UFD', 'ascii'), bytes('DfuSe', 'ascii')
DFU_SUFFIX_SIGNATURE == <<85, 70, 68>>
DFU_PREFIX_SIGNATURE == <<68, 102, 117, 83, 101>>

\* Python's None (a value no byte string equals)
None == <<-1>>
\* an attribute or local not yet assigned
Unset == [unset |-> TRUE]
\* a sink nothing has been written to
NotWritten == [written |-> FALSE, document |-> <<>>]

\* ------------------------------------------------------------ byte helpers
Min(a, b) == IF a < b THEN a ELSE b
Max(a, b) == IF a > b THEN a ELSE b

RECURSIVE Pow256(_)
Pow256(n) == IF n = 0 THEN 1 ELSE 256 * Pow256(n - 1)

\* struct.pack('<I' / '<H' / 'B'): n as w little-endian bytes
PackLE(n, w) == [i \in 1..w |-> (n \div Pow256(i - 1)) % 256]

\* struct.unpack of one little-endian unsigned field
RECURSIVE UnpackLE(_)
UnpackLE(b) == IF Len(b) = 0 THEN 0 ELSE b[1] + 256 * UnpackLE(Tail(b))

\* f.read(n) at position pos: at most n bytes, fewer at end of file
Read(f, pos, n) == IF pos >= Len(f) THEN <<>> ELSE SubSeq(f, pos + 1, Min(pos + n, Len(f)))
\* the position after f.read(n)
ReadPos(f, pos, n) == IF pos >= Len(f) THEN pos ELSE Min(pos + n, Len(f))

\* c_str.split(b'\0', 1)[0]: the bytes before the first null byte
UpToNull(b) ==
    IF \E i \in 1..Len(b) : b[i] = 0
    THEN SubSeq(b, 1, (CHOOSE i \in 1..Len(b) : b[i] = 0 /\ \A j \in 1..(i - 1) : b[j] # 0) - 1)
    ELSE b

\* .decode('ascii') raises UnicodeDecodeError on a byte above 127
IsAscii(b) == \A i \in 1..Len(b) : b[i] < 128

\* c_str_to_str: the decoded text, given that it is ASCII
c_str_to_str(c_str) == UpToNull(c_str)

\* ---------------------------------------------------------------- dfu_crc
RECURSIVE XorBits(_, _)
XorBits(a, b) == IF a = 0 THEN b ELSE IF b = 0 THEN a ELSE ((a + b) % 2) + 2 * XorBits(a \div 2, b \div 2)

XorByte == [a \in 0..255 |-> [b \in 0..255 |-> XorBits(a, b)]]

\* bytewise XOR of two little-endian 32-bit words
Xor32(x, y) == <<XorByte[x[1]][y[1]], XorByte[x[2]][y[2]], XorByte[x[3]][y[3]], XorByte[x[4]][y[4]]>>

\* a 32-bit word shifted right by one bit
Shr1(x) ==
    <<(x[1] \div 2) + (x[2] % 2) * 128, (x[2] \div 2) + (x[3] % 2) * 128,
      (x[3] \div 2) + (x[4] % 2) * 128, x[4] \div 2>>

\* the reflected CRC-32 polynomial 0xEDB88320
CrcPoly == <<32, 131, 184, 237>>

RECURSIVE CrcBits(_, _)
CrcBits(x, k) == IF k = 0 THEN x ELSE CrcBits(IF x[1] % 2 = 1 THEN Xor32(Shr1(x), CrcPoly) ELSE Shr1(x), k - 1)

CrcTable == [n \in 0..255 |-> CrcBits(<<n, 0, 0, 0>>, 8)]

\* one byte of the table-driven CRC: table[(crc ^ b) & 0xFF] ^ (crc >> 8)
CrcByte(crc, b) == Xor32(CrcTable[XorByte[crc[1]][b]], <<crc[2], crc[3], crc[4], 0>>)

\* the CRC register after bytes lo..hi of data, in order (the range is halved
\* and the register of the first half is a value before the second half runs)
RECURSIVE CrcUpdate(_, _, _, _)
CrcUpdate(crc, data, lo, hi) ==
    IF lo > hi THEN crc
    ELSE IF lo = hi THEN CrcByte(crc, data[lo])
    ELSE LET mid == (lo + hi) \div 2
         IN  CHOOSE r \in {CrcUpdate(c, data, mid + 1, hi) : c \in {CrcUpdate(crc, data, lo, mid)}} : TRUE

\* dfu_crc.dfu_crc: CRC-32, initial value 0xFFFFFFFF, final XOR 0xFFFFFFFF
dfu_crc(data) == Xor32(CrcUpdate(<<255, 255, 255, 255>>, data, 1, Len(data)), <<255, 255, 255, 255>>)

\* ------------------------------------------------------------ input files
\* The layouts below are the ones the readers unpack: '< 5s B I B' (prefix),
\* '< 6s B I 255s I I' (target prefix), '< I I' (element header) and
\* '< H H H H 3s B I' (suffix).

Addrs == {134217728, 134217729}
NamedFlags == {0, 1, 256}
Names == {<<>>, <<83, 84>>, <<83, 0, 84>>, <<83, 200>>, <<83, 0, 200>>}
Corruptions ==
    {"none", "prefix_sig", "version", "suffix_sig", "crc",
     "size_over", "elem_count_over", "image_count_over"}

\* payload byte k of element j of image i: distinct for distinct (i, j, k)
ElementData(i, j, size) == [k \in 1..size |-> 32 * i + 8 * j + k]

Zeros(n) == [k \in 1..n |-> 0]

RECURSIVE Concat(_)
Concat(ss) == IF Len(ss) = 0 THEN <<>> ELSE Head(ss) \o Concat(Tail(ss))

\* an element: header (address, declared size) and payload
ElementBytes(e, i, j, extra) ==
    PackLE(e.address, 4) \o PackLE(e.size + extra, 4) \o ElementData(i, j, e.size)

\* a target prefix and the image's elements; in the last image of a corrupted
\* file the element count, or the last element's size, declares too much
ImageBytes(img, i, c, last) ==
    LET n == Len(img.elements)
        body == Concat([j \in 1..n |->
                    ElementBytes(img.elements[j], i, j,
                        IF last /\ c = "size_over" /\ j = n THEN DFU_SUFFIX_LEN + 1 ELSE 0)])
        count == n + (IF last /\ c = "elem_count_over" THEN 2 ELSE 0)
    IN  <<84, 97, 114, 103, 101, 116>> \o <<img.alternate_setting>>
          \o PackLE(img.is_target_named, 4)
          \o img.target_name \o Zeros(TARGET_NAME_LEN - Len(img.target_name))
          \o PackLE(Len(body), 4) \o PackLE(count, 4) \o body

BodyBytes(desc, c) ==
    LET n == Len(desc)
        images == Concat([i \in 1..n |-> ImageBytes(desc[i], i, c, i = n)])
        count == n + (IF c = "image_count_over" THEN 1 ELSE 0)
    IN  (IF c = "prefix_sig" THEN <<68, 102, 117, 88, 101>> ELSE DFU_PREFIX_SIGNATURE)
          \o <<IF c = "version" THEN 2 ELSE DFU_PREFIX_VERSION>>
          \o PackLE(DFU_PREFIX_LEN + Len(images), 4) \o <<count>> \o images

\* the file: body, then the 16-byte suffix whose CRC covers all but itself
Build(desc, c) ==
    LET head == BodyBytes(desc, c) \o PackLE(256, 2) \o PackLE(22336, 2) \o PackLE(1155, 2)
                  \o PackLE(282, 2)
                  \o (IF c = "suffix_sig" THEN <<85, 70, 88>> ELSE DFU_SUFFIX_SIGNATURE)
                  \o <<DFU_SUFFIX_LEN>>
        crc == dfu_crc(head)
    IN  head \o (IF c = "crc" THEN Xor32(crc, <<1, 0, 0, 0>>) ELSE crc)

ElemDescs == [address : Addrs, size : 0..MaxSize]
SeqsUpTo(S, n) == UNION {[1..k -> S] : k \in 0..n}

\* one unnamed image, every sequence of elements
ElemFamily ==
    {<<[alternate_setting |-> 0, is_target_named |-> 0, target_name |-> <<>>, elements |-> es]>> :
        es \in SeqsUpTo(ElemDescs, MaxElems)}

\* one image with one element, every flag and name
NameFamily ==
    {<<[alternate_setting |-> 1, is_target_named |-> fl, target_name |-> nm,
        elements |-> <<[address |-> 134217728, size |-> 1]>>]>> :
        fl \in NamedFlags, nm \in Names}

\* every number of images and of elements, the elements side by side
CountFamily ==
    {[i \in 1..Len(cs) |->
        [alternate_setting |-> i - 1, is_target_named |-> i % 2, target_name |-> <<83, 84>>,
         elements |-> [j \in 1..cs[i] |->
            [address |-> 134217728 + 4 * (j - 1), size |-> (i + j) % (MaxSize + 1)]]]] :
        cs \in SeqsUpTo(0..MaxElems, MaxImages)}

Applicable(desc, c) ==
    /\ c = "size_over" => (Len(desc) > 0 /\ Len(desc[Len(desc)].elements) > 0)
    /\ c = "elem_count_over" => Len(desc) > 0

Inputs ==
    {[desc |-> d, corruption |-> "none"] : d \in ElemFamily \cup NameFamily}
      \cup {in \in [desc : CountFamily, corruption : Corruptions] : Applicable(in.desc, in.corruption)}

\* ----------------------------------------------------------------- state
VARIABLES
    prog,        \* which program runs: "dfuse_extract" or "dfuse-extract"
    args,        \* parse_args(): action, ignore_crc, metadata_file
    input,       \* what the file was built from (not read by the program)
    file,        \* the bytes of args.dfuse_file
    pos,         \* its read position
    pc,          \* where main() is
    error,       \* the exception that ended the run, "none" if none
    stderr,      \* messages printed to sys.stderr
    dfu_suffix,  \* DfuseFile.dfu_suffix
    dfu_prefix,  \* the DFUPrefix read_dfu_prefix returned
    images,      \* DfuseFile.images
    stdout,      \* lines printed by the actions
    outputs,     \* the files written: a set of [name, data]
    metadata,    \* the document written to args.metadata_file (which parse_args
                 \* has opened, and so emptied), NotWritten before save_metadata
    cursor       \* the loop indexes of the running extraction

vars == <<prog, args, input, file, pos, pc, error, stderr, dfu_suffix, dfu_prefix,
          images, stdout, outputs, metadata, cursor>>

Progs == {"dfuse_extract", "dfuse-extract"}

\* the command lines parse_args accepts
ArgsOf(p) ==
    IF p = "dfuse_extract"
    THEN [action : {"list", "extract", "extract_single"}, ignore_crc : BOOLEAN,
          metadata_file : BOOLEAN]
    ELSE [action : {"list", "extract"}, ignore_crc : {FALSE}, metadata_file : BOOLEAN]

\* ---------------------------------------------------------------- readers
\* DfuseFile.read_image_element at position p; read_data is always true in
\* dfuse_extract.py
read_image_element(p_prog, f, p, read_data) ==
    LET header == Read(f, p, IMAGE_ELEMENT_HEADER_LEN)
        p1 == ReadPos(f, p, IMAGE_ELEMENT_HEADER_LEN)
    IN  IF Len(header) # IMAGE_ELEMENT_HEADER_LEN
        THEN [error |-> "struct.error", pos |-> p1, element |-> None]
        ELSE LET address == UnpackLE(SubSeq(header, 1, 4))
                 size == UnpackLE(SubSeq(header, 5, 8))
             IN  IF p_prog = "dfuse_extract"
                 THEN [error |-> "none", pos |-> ReadPos(f, p1, size),
                       element |-> [address |-> address, data |-> Read(f, p1, size)]]
                 ELSE IF read_data
                 THEN [error |-> "none", pos |-> ReadPos(f, p1, size),
                       element |-> [address |-> address, size |-> size, data |-> Read(f, p1, size)]]
                 ELSE [error |-> "none", pos |-> p1 + size,
                       element |-> [address |-> address, size |-> size, data |-> None]]

\* the element loop of read_image: n elements from position p, appended to acc
RECURSIVE read_elements(_, _, _, _, _, _)
RECURSIVE read_elements_prepend(_, _, _, _, _, _)
\* the loop with each element put before the earlier ones
read_elements_prepend(p_prog, f, p, n, read_data, acc) ==
    IF n = 0 THEN [error |-> "none", pos |-> p, elements |-> acc]
    ELSE LET r == read_image_element(p_prog, f, p, read_data)
         IN  IF r.error # "none"
             THEN [error |-> r.error, pos |-> r.pos, elements |-> acc]
             ELSE read_elements_prepend(p_prog, f, r.pos, n - 1, read_data, <<r.element>> \o acc)

read_elements(p_prog, f, p, n, read_data, acc) ==
    IF n = 0 THEN [error |-> "none", pos |-> p, elements |-> acc]
    ELSE LET r == read_image_element(p_prog, f, p, read_data)
         IN  IF r.error # "none"
             THEN [error |-> r.error, pos |-> r.pos, elements |-> acc]
             ELSE read_elements(p_prog, f, r.pos, n - 1, read_data, Append(acc, r.element))

\* the flag tested as a 1-byte value
has_name_low_byte(target_prefix) == target_prefix[8] # 0

\* has_name = target_prefix.is_target_named != 0
has_name(target_prefix) == UnpackLE(SubSeq(target_prefix, 8, 11)) # 0

\* DfuseFile.read_image at position p
read_image(p_prog, f, p, read_data) ==
    LET target_prefix == Read(f, p, TARGET_PREFIX_LEN)
        p1 == ReadPos(f, p, TARGET_PREFIX_LEN)
    IN  IF Len(target_prefix) # TARGET_PREFIX_LEN
        THEN [error |-> "struct.error", pos |-> p1, image |-> None]
        ELSE LET element_count == UnpackLE(SubSeq(target_prefix, 271, 274))
                 target_name == SubSeq(target_prefix, 12, 11 + TARGET_NAME_LEN)
                 r == read_elements(p_prog, f, p1, element_count, read_data, <<>>)
             IN  IF r.error # "none"
                 THEN [error |-> r.error, pos |-> r.pos, image |-> None]
                 ELSE IF has_name(target_prefix) /\ ~IsAscii(UpToNull(target_name))
                 THEN [error |-> "UnicodeDecodeError", pos |-> r.pos, image |-> None]
                 ELSE [error |-> "none", pos |-> r.pos,
                       image |-> [alternate_setting |-> target_prefix[7],
                                  target_name |-> IF has_name(target_prefix)
                                                  THEN c_str_to_str(target_name) ELSE None,
                                  elements |-> r.elements]]

\* read_dfu_suffix with the CRC test never overridden
suffix_check_no_override(signature, stored_crc, crc, ignore_crc) ==
    IF signature # DFU_SUFFIX_SIGNATURE
    THEN [error |-> "Suffix signature mismatch", warning |-> FALSE]
    ELSE IF stored_crc # crc
    THEN [error |-> "Suffix CRC mismatch", warning |-> FALSE]
    ELSE [error |-> "none", warning |-> FALSE]

\* the checks of read_dfu_suffix on the unpacked suffix: the RuntimeError it
\* raises ("none": it returns) and whether it prints the warning
suffix_check(signature, stored_crc, crc, ignore_crc) ==
    IF signature # DFU_SUFFIX_SIGNATURE
    THEN [error |-> "Suffix signature mismatch", warning |-> FALSE]
    ELSE IF stored_crc # crc
    THEN IF ignore_crc
         THEN [error |-> "none", warning |-> TRUE]
         ELSE [error |-> "Suffix CRC mismatch", warning |-> FALSE]
    ELSE [error |-> "none", warning |-> FALSE]

\* the checks of read_dfu_prefix on the unpacked prefix.  dfuse_extract.py
\* raises RuntimeError; dfuse-extract.py prints the message and returns None,
\* and __init__ then fails on dfu_prefix.image_count
prefix_check(p_prog, signature, version) ==
    IF signature # DFU_PREFIX_SIGNATURE
    THEN IF p_prog = "dfuse_extract"
         THEN [error |-> "Prefix signature mismatch", printed |-> <<>>]
         ELSE [error |-> "AttributeError", printed |-> <<"Error: signature mismatch">>]
    ELSE IF version # DFU_PREFIX_VERSION
    THEN IF p_prog = "dfuse_extract"
         THEN [error |-> "Version mismatch", printed |-> <<>>]
         ELSE [error |-> "AttributeError", printed |-> <<"Error: version mismatch">>]
    ELSE [error |-> "none", printed |-> <<>>]

\* ---------------------------------------------------------------- actions
\* a true value in Python's sense: neither None nor the empty string
Truthy(name) == name # None /\ name # <<>>

\* the (image, element) indexes of the tree, from 1, in enumerate order
Positions(imgs) ==
    UNION {{<<i, j>> : j \in 1..Len(imgs[i].elements)} : i \in 1..Len(imgs)}
Before(q, r) == q[1] < r[1] \/ (q[1] = r[1] /\ q[2] < r[2])
HasNext(imgs, c) == \E q \in Positions(imgs) : Before(c, q)
NextPosition(imgs, c) ==
    CHOOSE q \in Positions(imgs) :
        Before(c, q) /\ \A r \in Positions(imgs) : Before(c, r) => (r = q \/ Before(q, r))

\* main, after the selected action: save_metadata if --save-metadata was given
after_action(a) == IF a.metadata_file THEN "metadata" ELSE "exit"

\* main, once DfuseFile(...) has returned: the selected action.  A loop over
\* no images (or no elements) runs no iteration.
dispatch(a, imgs) ==
    IF a.action = "list" THEN [pc |-> "list", cursor |-> <<0, 0>>]
    ELSE IF a.action = "extract"
    THEN IF HasNext(imgs, <<0, 0>>)
         THEN [pc |-> "extract", cursor |-> NextPosition(imgs, <<0, 0>>)]
         ELSE [pc |-> after_action(a), cursor |-> <<0, 0>>]
    ELSE IF Len(imgs) > 0
         THEN [pc |-> "extract_single", cursor |-> <<1, 0>>]
         ELSE [pc |-> after_action(a), cursor |-> <<0, 0>>]

\* main going on to save_metadata after a failed decode
on_decode_error_continue(a, err) == after_action(a)

\* main, when DfuseFile(...) raised: dfuse_extract.py catches RuntimeError,
\* prints it and returns; any other exception ends the run as well
on_decode_error(a, err) == "exit"

\* open(filename, 'wb') and the writes: the file named name now holds data
Put(outs, name, data) == {o \in outs : o.name # name} \cup {[name |-> name, data |-> data]}

\* f.seek(off); f.write(data) on a file holding buf: bytes between the old end
\* and off read as zero, and writing nothing leaves the file as it is
WriteAt(buf, off, data) ==
    IF Len(data) = 0 THEN buf
    ELSE [k \in 1..Max(Len(buf), off + Len(data)) |->
            IF k > off /\ k <= off + Len(data) THEN data[k - off]
            ELSE IF k <= Len(buf) THEN buf[k] ELSE 0]

\* action_extract_single without the loop that looks for the lowest address
start_address_first(elements) == elements[1].address

\* action_extract_single: the lowest address, from elements[0] on
RECURSIVE start_loop(_, _, _)
start_loop(start, elements, k) ==
    IF k > Len(elements) THEN start
    ELSE start_loop(IF start > elements[k].address THEN elements[k].address ELSE start,
                    elements, k + 1)
start_address(elements) == start_loop(elements[1].address, elements, 1)

\* action_extract_single: every element written at address - start_address
RECURSIVE write_elements(_, _, _, _)
write_elements(buf, elements, start, k) ==
    IF k > Len(elements) THEN buf
    ELSE write_elements(WriteAt(buf, elements[k].address - start, elements[k].data),
                        elements, start, k + 1)

\* the size action_list prints
listed_size(p_prog, e) == IF p_prog = "dfuse_extract" THEN Len(e.data) ELSE e.size

\* the lines action_list prints for one image
image_lines(p_prog, imgs, i) ==
    <<[image |-> i - 1, alternate_setting |-> imgs[i].alternate_setting,
       target_name |-> IF Truthy(imgs[i].target_name) THEN imgs[i].target_name ELSE None]>>
      \o [j \in 1..Len(imgs[i].elements) |->
            [size |-> listed_size(p_prog, imgs[i].elements[j]),
             address |-> imgs[i].elements[j].address]]

\* save_metadata: len(image_element) is the length of the ImageElement tuple
\* in dfuse_extract.py; dfuse-extract.py takes the header's size field
image_element_metadata(p_prog, e) ==
    [address |-> e.address,
     size |-> IF p_prog = "dfuse_extract" THEN Cardinality(DOMAIN e) ELSE e.size]

image_metadata(p_prog, image) ==
    LET elements == [j \in 1..Len(image.elements) |->
                        image_element_metadata(p_prog, image.elements[j])]
    IN  IF Truthy(image.target_name)
        THEN [alternate_setting |-> image.alternate_setting, elements |-> elements,
              target_name |-> image.target_name]
        ELSE [alternate_setting |-> image.alternate_setting, elements |-> elements]

Init ==
    /\ input \in Inputs
    /\ file = Build(input.desc, input.corruption)
    /\ prog \in Progs
    /\ args \in ArgsOf(prog)
    /\ pos = 0
    /\ pc = IF prog = "dfuse_extract" THEN "suffix" ELSE "prefix"
    /\ error = "none"
    /\ stderr = <<>>
    /\ dfu_suffix = Unset
    /\ dfu_prefix = Unset
    /\ images = <<>>
    /\ stdout = <<>>
    /\ outputs = {}
    /\ metadata = NotWritten
    /\ cursor = <<0, 0>>

\* DfuseFile.read_dfu_suffix (dfuse_extract.py only)
ReadDfuSuffix ==
    /\ pc = "suffix"
    /\ LET raw == Read(file, Len(file) - DFU_SUFFIX_LEN, DFU_SUFFIX_LEN)
           suffix == [device |-> UnpackLE(SubSeq(raw, 1, 2)), usb_pid |-> UnpackLE(SubSeq(raw, 3, 4)),
                      usb_vid |-> UnpackLE(SubSeq(raw, 5, 6)), dfu_spec |-> UnpackLE(SubSeq(raw, 7, 8)),
                      signature |-> SubSeq(raw, 9, 11), length |-> raw[12],
                      crc |-> SubSeq(raw, 13, 16)]
           crc_data == SubSeq(file, 1, Len(file) - DFU_SUFFIX_CRC_LEN)
           chk == suffix_check(suffix.signature, suffix.crc, dfu_crc(crc_data), args.ignore_crc)
       IN  /\ error' = chk.error
           /\ pos' = 0
           /\ IF chk.error # "none"
              THEN /\ pc' = on_decode_error(args, chk.error)
                   /\ stderr' = Append(stderr, <<"Parse error", chk.error>>)
                   /\ UNCHANGED dfu_suffix
              ELSE /\ pc' = "prefix"
                   /\ stderr' = IF chk.warning
                                THEN Append(stderr, <<"Warning: suffix CRC mismatch (ignored)">>)
                                ELSE stderr
                   /\ dfu_suffix' = suffix
    /\ UNCHANGED <<prog, args, input, file, dfu_prefix, images, stdout, outputs, metadata, cursor>>

\* DfuseFile.read_dfu_prefix, and __init__ up to the image loop
ReadDfuPrefix ==
    /\ pc = "prefix"
    /\ LET raw == Read(file, pos, DFU_PREFIX_LEN)
           chk == prefix_check(prog, SubSeq(raw, 1, 5), raw[6])
           err == IF Len(raw) # DFU_PREFIX_LEN THEN "struct.error" ELSE chk.error
       IN  /\ pos' = ReadPos(file, pos, DFU_PREFIX_LEN)
           /\ error' = err
           /\ IF err # "none"
              THEN /\ pc' = on_decode_error(args, err)
                   /\ stderr' = IF err = "struct.error" THEN stderr
                                ELSE IF prog = "dfuse_extract"
                                THEN Append(stderr, <<"Parse error", err>>)
                                ELSE stderr \o chk.printed
                   /\ UNCHANGED <<dfu_prefix, cursor>>
              ELSE /\ dfu_prefix' = [signature |-> SubSeq(raw, 1, 5), version |-> raw[6],
                                     file_size |-> UnpackLE(SubSeq(raw, 7, 10)),
                                     image_count |-> raw[11]]
                   /\ pc' = IF raw[11] = 0 THEN dispatch(args, <<>>).pc ELSE "images"
                   /\ cursor' = IF raw[11] = 0 THEN dispatch(args, <<>>).cursor ELSE cursor
                   /\ UNCHANGED stderr
    /\ UNCHANGED <<prog, args, input, file, dfu_suffix, images, stdout, outputs, metadata>>

\* one iteration of __init__'s loop: read_image and the append
ReadImage ==
    /\ pc = "images"
    /\ LET r == read_image(prog, file, pos, prog = "dfuse_extract" \/ args.action = "extract")
       IN  /\ pos' = r.pos
           /\ error' = r.error
           /\ IF r.error # "none"
              THEN /\ pc' = on_decode_error(args, r.error)
                   /\ UNCHANGED <<images, cursor>>
              ELSE /\ images' = Append(images, r.image)
                   /\ pc' = IF Len(images) + 1 = dfu_prefix.image_count
                            THEN dispatch(args, images').pc ELSE "images"
                   /\ cursor' = IF Len(images) + 1 = dfu_prefix.image_count
                                THEN dispatch(args, images').cursor ELSE cursor
    /\ UNCHANGED <<prog, args, input, file, stderr, dfu_suffix, dfu_prefix, stdout, outputs, metadata>>

\* action_list
ActionList ==
    /\ pc = "list"
    /\ stdout' = stdout \o Concat([i \in 1..Len(images) |-> image_lines(prog, images, i)])
                        \o <<"Hint: extract with '--extract'">>
    /\ pc' = after_action(args)
    /\ UNCHANGED <<prog, args, input, file, pos, error, stderr, dfu_suffix, dfu_prefix, images,
                   outputs, metadata, cursor>>

\* one iteration of action_extract's inner loop; the open may fail (OSError)
ActionExtract ==
    /\ pc = "extract"
    /\ LET e == images[cursor[1]].elements[cursor[2]]
           filename == [image |-> cursor[1] - 1, element |-> cursor[2] - 1, address |-> e.address]
       IN  \E writable \in BOOLEAN :
              IF writable
              THEN /\ outputs' = Put(outputs, filename, e.data)
                   /\ stdout' = Append(stdout, [extracted |-> filename])
                   /\ IF HasNext(images, cursor)
                      THEN cursor' = NextPosition(images, cursor) /\ pc' = "extract"
                      ELSE cursor' = cursor /\ pc' = after_action(args)
                   /\ UNCHANGED error
              ELSE /\ error' = "OSError"
                   /\ pc' = "exit"
                   /\ UNCHANGED <<outputs, stdout, cursor>>
    /\ UNCHANGED <<prog, args, input, file, pos, stderr, dfu_suffix, dfu_prefix, images, metadata>>

\* one iteration of action_extract_single's outer loop (dfuse_extract.py only)
ActionExtractSingle ==
    /\ pc = "extract_single"
    /\ LET elements == images[cursor[1]].elements
       IN  IF Len(elements) = 0
           THEN /\ error' = "IndexError"
                /\ pc' = "exit"
                /\ UNCHANGED <<outputs, stdout, cursor>>
           ELSE \E writable \in BOOLEAN :
                  IF writable
                  THEN LET start == start_address(elements)
                           filename == [image |-> cursor[1] - 1, address |-> start]
                       IN  /\ outputs' = Put(outputs, filename, write_elements(<<>>, elements, start, 1))
                           /\ stdout' = stdout \o [j \in 1..Len(elements) |->
                                  [extracted |-> filename, element |-> j - 1,
                                   at |-> elements[j].address - start]]
                           /\ IF cursor[1] < Len(images)
                              THEN cursor' = <<cursor[1] + 1, 0>> /\ pc' = "extract_single"
                              ELSE cursor' = cursor /\ pc' = after_action(args)
                           /\ UNCHANGED error
                  ELSE /\ error' = "OSError"
                       /\ pc' = "exit"
                       /\ UNCHANGED <<outputs, stdout, cursor>>
    /\ UNCHANGED <<prog, args, input, file, pos, stderr, dfu_suffix, dfu_prefix, images, metadata>>

\* save_metadata
SaveMetadata ==
    /\ pc = "metadata"
    /\ metadata' = [written |-> TRUE,
                    document |-> [i \in 1..Len(images) |-> image_metadata(prog, images[i])]]
    /\ pc' = "exit"
    /\ UNCHANGED <<prog, args, input, file, pos, error, stderr, dfu_suffix, dfu_prefix, images,
                   stdout, outputs, cursor>>

Next ==
    \/ ReadDfuSuffix
    \/ ReadDfuPrefix
    \/ ReadImage
    \/ ActionList
    \/ ActionExtract
    \/ ActionExtractSingle
    \/ SaveMetadata

Spec == Init /\ [][Next]_vars

\* ------------------------------------------------------------- properties
Decoding == pc \in {"suffix", "prefix", "images"}
DecodeErrors ==
    {"Suffix signature mismatch", "Suffix CRC mismatch", "Prefix signature mismatch",
     "Version mismatch", "struct.error", "UnicodeDecodeError", "AttributeError"}
\* DfuseFile(...) has returned a tree to main
Decoded == ~Decoding /\ error \notin DecodeErrors
\* the file declares more bytes than it holds
Truncated == input.corruption \in {"size_over", "elem_count_over", "image_count_over"}
\* the payloads were read (dfuse-extract.py skips them when listing)
ReadsData == prog = "dfuse_extract" \/ args.action = "extract"
NoOutput == outputs = {} /\ stdout = <<>> /\ ~metadata.written
CrcWarning == <<"Warning: suffix CRC mismatch (ignored)">>
InStderr(m) == \E k \in 1..Len(stderr) : stderr[k] = m
\* the target prefix's 255-byte name field of image i of the input
NameField(i) == input.desc[i].target_name \o Zeros(TARGET_NAME_LEN - Len(input.desc[i].target_name))
\* n is the part of field before its first null byte
BeforeFirstNull(n, field) ==
    /\ Len(n) <= Len(field)
    /\ \A k \in 1..Len(n) : n[k] = field[k] /\ n[k] # 0
    /\ Len(n) < Len(field) => field[Len(n) + 1] = 0
\* every name the file flags as present is ASCII text
NamesDecodable ==
    \A i \in 1..Len(input.desc) :
        input.desc[i].is_target_named # 0 => IsAscii(UpToNull(input.desc[i].target_name))
ValidInput == input.corruption = "none" /\ NamesDecodable
\* decoded element j of image i is the one the file stores there
ElementMatches(i, j) ==
    LET e == images[i].elements[j]
        d == input.desc[i].elements[j]
    IN  /\ e.address = d.address
        /\ e.data = IF ReadsData THEN ElementData(i, j, d.size) ELSE None
        /\ ReadsData => Len(e.data) = d.size
ImageMatches(i) ==
    /\ images[i].alternate_setting = input.desc[i].alternate_setting
    /\ Len(images[i].elements) = Len(input.desc[i].elements)
    /\ \A j \in 1..Len(images[i].elements) : ElementMatches(i, j)

\* C1: a file that declares more bytes than it holds (an element size, an
\* element count or an image count that runs past the end of the file) never
\* decodes to a tree when the payloads are read: decoding fails, and no
\* element with fewer payload bytes than its header declares is returned.
C1_TruncatedNeverDecodes == (Truncated /\ ReadsData) => ~Decoded

\* C2: in dfuse_extract.py, when the stored CRC differs from the computed one:
\* without ignore_crc the run ends with "Suffix CRC mismatch", no tree and no
\* output; with ignore_crc the warning is printed, the CRC is no error and the
\* tree is the one the file stores.  A suffix signature, prefix signature or
\* version mismatch ends the run whatever ignore_crc is, and no warning is
\* printed unless the CRC differs.
C2_CrcOverride ==
    prog = "dfuse_extract" =>
        /\ (input.corruption = "crc" /\ ~args.ignore_crc /\ pc # "suffix") =>
              (pc = "exit" /\ error = "Suffix CRC mismatch" /\ images = <<>>
                 /\ dfu_prefix = Unset /\ NoOutput)
        /\ (input.corruption = "crc" /\ args.ignore_crc /\ pc # "suffix") =>
              /\ InStderr(CrcWarning)
              /\ error \notin DecodeErrors
              /\ \A i \in 1..Len(images) : ImageMatches(i)
              /\ Decoded => Len(images) = Len(input.desc)
        /\ (input.corruption = "suffix_sig" /\ pc # "suffix") =>
              (pc = "exit" /\ error = "Suffix signature mismatch" /\ NoOutput)
        /\ (input.corruption = "prefix_sig" /\ pc \notin {"suffix", "prefix"}) =>
              (pc = "exit" /\ error = "Prefix signature mismatch" /\ NoOutput)
        /\ (input.corruption = "version" /\ pc \notin {"suffix", "prefix"}) =>
              (pc = "exit" /\ error = "Version mismatch" /\ NoOutput)
        /\ input.corruption # "crc" => ~InStderr(CrcWarning)

\* a run with a wrong CRC and ignore_crc that extracted the stored payloads
C2_Witness ==
    /\ prog = "dfuse_extract" /\ input.corruption = "crc" /\ args.ignore_crc
    /\ pc = "exit" /\ error = "none" /\ InStderr(CrcWarning)
    /\ Len(images) = 2 /\ outputs # {}

\* C3: a prefix with a wrong signature or a wrong version ends the run with
\* the matching error (Prefix signature mismatch, Version mismatch) right
\* after the 11 prefix bytes: no target prefix is read and no image decoded.
C3_PrefixMismatchTyped ==
    (input.corruption \in {"prefix_sig", "version"} /\ pc \notin {"suffix", "prefix"}) =>
        /\ pc = "exit"
        /\ error = IF input.corruption = "prefix_sig"
                   THEN "Prefix signature mismatch" ELSE "Version mismatch"
        /\ images = <<>>
        /\ pos = DFU_PREFIX_LEN

\* the merged file action_extract_single wrote for image i, and whether it did
Merged(i) == CHOOSE o \in outputs : o.name.image = i - 1
HasMerged(i) ==
    /\ prog = "dfuse_extract" /\ args.action = "extract_single"
    /\ i \in 1..Len(images)
    /\ \E o \in outputs : o.name.image = i - 1
\* element k of image i covers offset off of the merged file
Covers(i, k, off) ==
    LET e == images[i].elements[k]
        at == e.address - Merged(i).name.address
    IN  off >= at /\ off < at + Len(e.data)
\* base is the lowest element address, and every offset an element covers
\* holds the byte of the last element covering it
MergePlacement(i) ==
    LET es == images[i].elements
        out == Merged(i)
        base == out.name.address
    IN  /\ Len(es) > 0
        /\ \A k \in 1..Len(es) : base <= es[k].address
        /\ \E k \in 1..Len(es) : base = es[k].address
        /\ \A k \in 1..Len(es) : \A b \in 1..Len(es[k].data) :
              LET off == es[k].address - base + b - 1
              IN  (\A l \in (k + 1)..Len(es) : ~Covers(i, l, off)) =>
                     (off < Len(out.data) /\ out.data[off + 1] = es[k].data[b])

\* C4, as claimed: base is the minimum address, covered offsets hold the last
\* writer's bytes, and the merged file is at least as long as
\* address - base + payload length of every element.
C4_MergeLengthAllElements ==
    \A i \in 1..Len(images) : HasMerged(i) =>
        /\ MergePlacement(i)
        /\ \A k \in 1..Len(images[i].elements) :
              Len(Merged(i).data) >=
                 images[i].elements[k].address - Merged(i).name.address
                   + Len(images[i].elements[k].data)

\* C4, amended: the same, the length bound taken over the elements with a
\* non-empty payload (an empty payload written past the end adds nothing),
\* and no byte beyond the furthest of them.
C4_MergeLastWriteWins ==
    \A i \in 1..Len(images) : HasMerged(i) =>
        /\ MergePlacement(i)
        /\ \A k \in 1..Len(images[i].elements) :
              Len(images[i].elements[k].data) > 0 =>
                 Len(Merged(i).data) >=
                    images[i].elements[k].address - Merged(i).name.address
                      + Len(images[i].elements[k].data)
        /\ \A off \in 0..(Len(Merged(i).data) - 1) :
              (\A k \in 1..Len(images[i].elements) : ~Covers(i, k, off)) =>
                 /\ Merged(i).data[off + 1] = 0
                 /\ \E k \in 1..Len(images[i].elements) :
                       off < images[i].elements[k].address - Merged(i).name.address

\* a merged image whose lowest address is its second element's and whose two
\* payloads overlap
C4_Witness ==
    /\ HasMerged(1)
    /\ Len(images[1].elements) = 2
    /\ images[1].elements[2].address < images[1].elements[1].address
    /\ Len(images[1].elements[2].data) = 2
    /\ Len(images[1].elements[1].data) = 2
    /\ Len(Merged(1).data) = 3

\* C5: in merge mode an image without elements ends the extraction with the
\* error EmptyImage, and no file is opened for that image.
C5_EmptyImageTyped ==
    (/\ prog = "dfuse_extract" /\ args.action = "extract_single" /\ pc = "exit"
     /\ cursor[1] \in 1..Len(images)
     /\ Len(images[cursor[1]].elements) = 0) =>
        /\ error = "EmptyImage"
        /\ ~\E o \in outputs : o.name.image = cursor[1] - 1

\* C6: the metadata document of an intact file has one record per image and
\* per element, in decode order, each with the element's address and the
\* length of its decoded payload.
C6_MetadataSizeIsPayloadLength ==
    (metadata.written /\ ReadsData /\ input.corruption = "none") =>
        /\ Len(metadata.document) = Len(images)
        /\ \A i \in 1..Len(images) :
              /\ Len(metadata.document[i].elements) = Len(images[i].elements)
              /\ \A j \in 1..Len(images[i].elements) :
                    /\ metadata.document[i].elements[j].address = images[i].elements[j].address
                    /\ metadata.document[i].elements[j].size = Len(images[i].elements[j].data)

\* C7: a decoded image has no target_name exactly when the 4-byte
\* is_target_named field of its target prefix is zero, whatever the name field
\* holds; otherwise its target_name is the name field up to the first null.
C7_NameIffFlagNonzero ==
    \A i \in 1..Len(images) : i <= Len(input.desc) =>
        /\ images[i].target_name = None <=> input.desc[i].is_target_named = 0
        /\ input.desc[i].is_target_named # 0 =>
              BeforeFirstNull(images[i].target_name, NameField(i))

\* an image whose flag is 0x00000100 (low byte zero), decoded with the name
\* cut at the null byte inside the field
C7_Witness ==
    /\ Len(images) = 1 /\ Len(input.desc) = 1
    /\ input.desc[1].is_target_named = 256
    /\ input.desc[1].target_name = <<83, 0, 84>>
    /\ images[1].target_name = <<83>>

\* C8: for an intact file, the images decoded so far are the first images of
\* the file, each with all its elements in file order, every element with the
\* address and the payload stored at its place; once decoding has ended there
\* are as many images as the prefix declares and the read position is at the
\* suffix.
C8_SequentialDecode ==
    ValidInput =>
        /\ \A i \in 1..Len(images) : i <= Len(input.desc) /\ ImageMatches(i)
        /\ ~Decoding =>
              /\ Decoded
              /\ Len(images) = Len(input.desc)
              /\ pos = Len(file) - DFU_SUFFIX_LEN

\* two images decoded, the second with two elements of different sizes
C8_Witness ==
    /\ ValidInput /\ Decoded /\ ReadsData
    /\ Len(images) = 2
    /\ Len(images[1].elements) = 1
    /\ Len(images[2].elements) = 2
    /\ Len(images[2].elements[1].data) # Len(images[2].elements[2].data)

\* the file name action_extract gives element q
ElementFile(q) ==
    [image |-> q[1] - 1, element |-> q[2] - 1, address |-> images[q[1]].elements[q[2]].address]

\* C9: in dfuse_extract.py a file that cannot be written does not stop the
\* other extractions.  When a per-element run has ended, every element but the one whose write
\* failed has its file; when a merge run has ended (on no other error), every
\* image but the one whose write failed has its merged file.
C9_WriteFailuresIsolated ==
    /\ (prog = "dfuse_extract" /\ args.action = "extract" /\ pc = "exit" /\ Decoded) =>
          \A q \in Positions(images) :
              (error = "OSError" /\ q = cursor) \/ \E o \in outputs : o.name = ElementFile(q)
    /\ (args.action = "extract_single" /\ pc = "exit" /\ error \in {"none", "OSError"}) =>
          \A i \in 1..Len(images) :
              (error = "OSError" /\ i = cursor[1]) \/ \E o \in outputs : o.name.image = i - 1

\* C10: nothing is listed, extracted or written to the metadata sink before
\* the whole file has been decoded without error; a run whose decoding failed
\* ends with no output at all.
C10_NoOutputBeforeDecoded ==
    /\ ~NoOutput =>
          /\ ~Decoding
          /\ error \notin DecodeErrors
          /\ dfu_prefix # Unset
          /\ Len(images) = dfu_prefix.image_count
          /\ prog = "dfuse_extract" => dfu_suffix # Unset
    /\ (Decoding \/ error \in DecodeErrors) => NoOutput

\* a run asked to extract and to save metadata that decoded one image and
\* then met a cut-off header: it ended with nothing written
C10_Witness ==
    /\ pc = "exit" /\ error = "struct.error"
    /\ args.action = "extract" /\ args.metadata_file
    /\ Len(images) = 1
    /\ NoOutput
====
